---- MODULE Spec2Model ----
(***************************************************************************)
(* Model of src/audio_capture.cc: the AudioCapture object (a loopback      *)
(* capture session), the CoreAudio units it creates, the N-API             *)
(* thread-safe functions it hands buffers to, and the consumer callbacks   *)
(* the JavaScript thread runs.                                             *)
(*                                                                         *)
(* Threads.  StartCapture, StopCapture, the destructor and the dispatch    *)
(* of queued calls run on the JavaScript thread, one at a time.            *)
(* AudioInputCallback runs on the audio thread of a started unit.  Each    *)
(* is one atomic action (AudioOutputUnitStop returns only when the IO      *)
(* cycle in progress has ended), except StartCapture, which is two: the    *)
(* audio thread may run between AudioOutputUnitStart and the assignment    *)
(* isCapturing = true that follows it.                                     *)
(*                                                                         *)
(* Platform.  A setup call may return a non-success status, and then has   *)
(* had no effect; the teardown calls on a live unit take effect.  The      *)
(* render callback is invoked for a running unit whose callback was        *)
(* registered and, as the fault the session must withstand, for a unit     *)
(* that was running when it was stopped.  A thread-safe function queues    *)
(* calls in order, stays alive after Release until its queue is empty,     *)
(* and is then destroyed; a call on a released function is undefined.      *)
(***************************************************************************)
EXTENDS Integers, Sequences, FiniteSets, TLC

\* ------------------------------------------------------------------ bounds
MaxStarts  == 2   \* thread-safe functions (and so units) one run may create
MaxRenders == 2   \* audio frame buffers queued in one run
MaxFrames  == 1   \* largest inNumberFrames the audio subsystem reports

\* ------------------------------------------------------- program constants
NoHandle       == 0           \* a null AudioUnit / empty ThreadSafeFunction
NumChannels    == 2           \* stereo
SizeofFloat32  == 4
MaxQueueSize   == 0           \* max_queue_size of the handoff function: no limit

Handles   == 1..MaxStarts
Callbacks == {"cb"}                         \* JavaScript functions
Args      == Callbacks \cup {"absent", "notFunction"}
Devices   == {"devA"}                       \* AudioDeviceID values
Status    == {"noErr", "err"}               \* OSStatus: success or not

\* The messages of the JavaScript errors StartCapture throws.
NoError             == "none"
ErrAlreadyCapturing == "Already capturing"
ErrCallbackRequired == "Callback function required"
ErrDevice           == "Failed to get default output device"
ErrUnit             == "Failed to create audio unit"
\* What a startCapture has returned while it is between lines 233 and 235.
Pending             == "pending"

\* The platform calls StartCapture makes on the unit it created, in order.
SetupSteps == {"disableOutput", "enableInput", "setDevice", "setFormat",
               "setCallback", "initialize", "start"}
SetupOrder == <<"disableOutput", "enableInput", "setDevice", "setFormat",
                "setCallback", "initialize", "start">>
\* Which of them return a non-success status in one StartCapture: none or one.
FailChoices == {{}} \cup {{s} : s \in SetupSteps}

\* The teardown calls StopCapture makes on its unit, in order.
TeardownSteps == {"stop", "uninitialize", "dispose"}
\* Which of them return a non-success status in one StopCapture: none or one.
TeardownFailChoices == {{}} \cup {{s} : s \in TeardownSteps}

\* What an operation did: the error it threw (or the status the render
\* callback returned) and the platform calls it made, in order.
Called(op, ret, calls) == [op |-> op, ret |-> ret, calls |-> calls]

Returned(op, ret) == Called(op, ret, <<>>)

PlatformCall(name, failed) ==
  [call |-> name, status |-> IF failed THEN "err" ELSE "noErr"]

VARIABLES
  isCapturing,   \* AudioCapture::isCapturing
  audioUnit,     \* AudioCapture::audioUnit (a handle, NoHandle when null)
  outputDevice,  \* AudioCapture::outputDevice
  tsfn,          \* AudioCapture::tsfn (a handle, NoHandle when empty)
  chan,          \* the thread-safe functions of the N-API runtime, by handle
  unit,          \* the audio unit instances of CoreAudio, by handle
  delivered,     \* the consumer callback invocations so far, in order
  nRender,       \* audio frame buffers queued so far: the next one's id
  last,          \* the operation that produced this state, what it
                 \* returned (the error thrown, or the callback's status)
                 \* and the platform calls it made
  destroyed      \* "no", or the state the destructor found: "idle"/"capturing"

vars == <<isCapturing, audioUnit, outputDevice, tsfn, chan, unit, delivered,
          nRender, last, destroyed>>

\* ------------------------------------------------------------ audio frames
\* A buffer size that counts two bytes for a sample, as line 48 does.
BufferSizeHalf(n) == n * NumChannels * (SizeofFloat32 \div 2)

\* size_t bufferSize = inNumberFrames * 2 * sizeof(Float32).  The product
\* inNumberFrames * 2 is UInt32 arithmetic and wraps from 2^31 frames on;
\* the frame counts of an audio quantum (1..MaxFrames here) are far below.
BufferSize(n) == n * NumChannels * SizeofFloat32

\* bufferList.mBuffers[0].mDataByteSize = inNumberFrames * 4: the byte size
\* of the scratch buffer that AudioUnitRender is told.
ScratchByteSize(n) == n * 4

\* std::make_unique<Float32[]>(inNumberFrames * 2): the bytes allocated.
ScratchAllocation(n) == (n * NumChannels) * SizeofFloat32

\* AudioData: the bytes copied out of the scratch buffer of invocation id.
\* declared, allocated: the two sizes of the scratch buffer it was copied from.
AudioData(id, n) ==
  [id |-> id, frames |-> n, size |-> BufferSize(n),
   declared |-> ScratchByteSize(n), allocated |-> ScratchAllocation(n)]

\* ------------------------------------------- N-API thread-safe functions
NoChan == [state |-> "unused", cb |-> "absent", queue |-> <<>>, threads |-> 0,
           releases |-> 0, enq |-> <<>>, start |-> "none"]

\* Napi::ThreadSafeFunction::New(env, fn, name, 0, 1, finalizer): an unbounded
\* queue (max_queue_size 0) and one thread using it (initial_thread_count 1).
TsfnNew(ch, h, cb) ==
  [ch EXCEPT ![h] = [state |-> "open", cb |-> cb, queue |-> <<>>,
                     threads |-> 1, releases |-> 0, enq |-> <<>>,
                     start |-> "none"]]

\* tsfn.Release(): napi_release_threadsafe_function(_, napi_tsfn_release).
\* The wrapper keeps its handle: tsfn still converts to true afterwards.
\* The function is destroyed once no thread uses it and its queue is empty.
TsfnRelease(ch, h) ==
  [ch EXCEPT ![h].threads = IF @ > 0 THEN @ - 1 ELSE @,
             ![h].releases = @ + 1]

\* start: what the StartCapture that created the function went on to throw.
TsfnCreatedBy(ch, h, ret) == [ch EXCEPT ![h].start = ret]

\* A thread-safe function some thread still holds.
ChanOpen(h) == chan[h].state = "open" /\ chan[h].threads > 0

\* tsfn.NonBlockingCall(callback) with the queue accepting the call.
TsfnPush(ch, h, data) ==
  [ch EXCEPT ![h].queue = Append(@, data), ![h].enq = Append(@, data.id)]

\* The lowest handle not yet given out, NoHandle when the bound is reached.
FreshTsfn ==
  IF \E h \in Handles : chan[h].state = "unused"
  THEN CHOOSE h \in Handles :
         /\ chan[h].state = "unused"
         /\ \A g \in Handles : g < h => chan[g].state # "unused"
  ELSE NoHandle

\* --------------------------------------------------- CoreAudio audio units
NoUnit == [state |-> "none", failed |-> {}, running |-> FALSE, armed |-> FALSE,
           stops |-> 0, uninits |-> 0, disposes |-> 0]

FreshUnit ==
  IF \E u \in Handles : unit[u].state = "none"
  THEN CHOOSE u \in Handles :
         /\ unit[u].state = "none"
         /\ \A g \in Handles : g < u => unit[g].state # "none"
  ELSE NoHandle

\* AudioOutputUnitStart on a unit whose AudioUnitInitialize failed fails too.
Failed(fails) == IF "initialize" \in fails THEN fails \cup {"start"} ELSE fails

\* The unit after the seven setup calls, those in fails having failed.
Configure(fails) ==
  [state |-> "live", failed |-> Failed(fails),
   running |-> "start" \notin Failed(fails), armed |-> FALSE,
   stops |-> 0, uninits |-> 0, disposes |-> 0]

\* AudioOutputUnitStop, AudioUnitUninitialize, AudioComponentInstanceDispose.
\* Whatever the three return, the instance does not outlive the last of them.
\* armed: the unit was running with the render callback registered when it
\* was stopped, so the audio subsystem holds the callback of an IO cycle.
Teardown(un, u) ==
  [un EXCEPT ![u] = [state |-> "disposed", failed |-> {}, running |-> FALSE,
                     armed |-> (un[u].state = "live" /\ un[u].running
                                /\ "setCallback" \notin un[u].failed)
                               \/ un[u].armed,
                     stops |-> un[u].stops + 1,
                     uninits |-> un[u].uninits + 1,
                     disposes |-> un[u].disposes + 1]]

UnitLive(u) == unit[u].state = "live"

\* The audio subsystem invokes the registered callback of a running unit.
UnitFires(u) ==
  UnitLive(u) /\ unit[u].running /\ "setCallback" \notin unit[u].failed

\* A unit that was stopped while running.  The audio subsystem was handed
\* the callback and the session (lines 220-229) and may be driven to invoke
\* it again after the stop: the case the session has to withstand, as long
\* as the object exists.
UnitFiresLate(u) == unit[u].state = "disposed" /\ unit[u].armed

\* The JavaScript thread is inside StartCapture, past AudioOutputUnitStart
\* (line 233) and before isCapturing = true (line 235): the session's unit
\* is live and the session does not yet count as capturing.
Starting == audioUnit # NoHandle /\ UnitLive(audioUnit) /\ ~isCapturing

\* -------------------------------------------------------------------- Init
Init ==
  /\ isCapturing = FALSE
  /\ audioUnit = NoHandle
  /\ outputDevice = "unset"
  /\ tsfn = NoHandle
  /\ chan = [h \in Handles |-> NoChan]
  /\ unit = [u \in Handles |-> NoUnit]
  /\ delivered = <<>>
  /\ nRender = 0
  /\ last = Returned("new", NoError)
  /\ destroyed = "no"

\* ------------------------------------------------------------ StartCapture
\* The platform calls of a StartCapture that reaches line 233, in the order
\* the code makes them, those in fails returning a non-success status.
StartCalls(fails) ==
  << PlatformCall("ThreadSafeFunction::New", FALSE),
     PlatformCall("AudioObjectGetPropertyData", FALSE),
     PlatformCall("AudioComponentInstanceNew", FALSE) >>
  \o [i \in 1..Len(SetupOrder) |->
        PlatformCall(SetupOrder[i], SetupOrder[i] \in Failed(fails))]

\* Lines 125-233: the handoff function, the device, the unit and its setup.
\* devStatus, newStatus: the statuses of AudioObjectGetPropertyData and
\* AudioComponentInstanceNew; dev: the default output device; fails: the
\* setup calls that fail.  Only the first two statuses are tested.  A call
\* that got past AudioComponentInstanceNew stands after AudioOutputUnitStart,
\* with line 235 still to come.
StartSetup(arg, devStatus, dev, newStatus, fails) ==
  /\ FreshTsfn # NoHandle
  /\ tsfn' = FreshTsfn
  /\ IF devStatus # "noErr"
     THEN /\ last' = Returned("startCapture", ErrDevice)
          /\ UNCHANGED <<isCapturing, audioUnit, outputDevice, unit>>
     ELSE /\ outputDevice' = dev
          /\ IF newStatus # "noErr"
             THEN /\ last' = Returned("startCapture", ErrUnit)
                  /\ UNCHANGED <<isCapturing, audioUnit, unit>>
             ELSE /\ FreshUnit # NoHandle
                  /\ audioUnit' = FreshUnit
                  /\ unit' = [unit EXCEPT ![FreshUnit] = Configure(fails)]
                  /\ UNCHANGED isCapturing
                  /\ last' = Called("startCapture", Pending, StartCalls(fails))
  /\ chan' = TsfnCreatedBy(TsfnNew(chan, FreshTsfn, arg), FreshTsfn, last'.ret)

\* StartCapture without the test of isCapturing.
StartCaptureUnguarded(arg, devStatus, dev, newStatus, fails) ==
  /\ destroyed = "no"
  /\ ~Starting
  /\ UNCHANGED <<delivered, nRender, destroyed>>
  /\ IF arg \notin Callbacks
     THEN /\ last' = Returned("startCapture", ErrCallbackRequired)
          /\ UNCHANGED <<isCapturing, audioUnit, outputDevice, tsfn, chan, unit>>
     ELSE StartSetup(arg, devStatus, dev, newStatus, fails)

\* A StartCapture that creates the handoff function before it tests its
\* argument.
StartCaptureOpensFirst(arg, devStatus, dev, newStatus, fails) ==
  /\ destroyed = "no"
  /\ ~Starting
  /\ UNCHANGED <<delivered, nRender, destroyed>>
  /\ IF isCapturing
     THEN /\ last' = Returned("startCapture", ErrAlreadyCapturing)
          /\ UNCHANGED <<isCapturing, audioUnit, outputDevice, tsfn, chan, unit>>
     ELSE IF arg \notin Callbacks
     THEN /\ FreshTsfn # NoHandle
          /\ tsfn' = FreshTsfn
          /\ chan' = TsfnNew(chan, FreshTsfn, arg)
          /\ last' = Returned("startCapture", ErrCallbackRequired)
          /\ UNCHANGED <<isCapturing, audioUnit, outputDevice, unit>>
     ELSE StartSetup(arg, devStatus, dev, newStatus, fails)

StartCapture(arg, devStatus, dev, newStatus, fails) ==
  /\ destroyed = "no"
  /\ ~Starting
  /\ UNCHANGED <<delivered, nRender, destroyed>>
  /\ IF isCapturing
     THEN /\ last' = Returned("startCapture", ErrAlreadyCapturing)
          /\ UNCHANGED <<isCapturing, audioUnit, outputDevice, tsfn, chan, unit>>
     ELSE IF arg \notin Callbacks
     THEN /\ last' = Returned("startCapture", ErrCallbackRequired)
          /\ UNCHANGED <<isCapturing, audioUnit, outputDevice, tsfn, chan, unit>>
     ELSE StartSetup(arg, devStatus, dev, newStatus, fails)

\* Line 235-236: isCapturing = true, and StartCapture returns.
StartReturns ==
  /\ Starting
  /\ isCapturing' = TRUE
  /\ last' = Returned("startCapture", NoError)
  /\ UNCHANGED <<audioUnit, outputDevice, tsfn, chan, unit, delivered,
                 nRender, destroyed>>

\* ------------------------------------------------------------- StopCapture
\* A teardown that releases the handoff function before it stops the unit.
StopCallsReleaseFirst(tdFails) ==
  (IF tsfn # NoHandle THEN << PlatformCall("Release", FALSE) >> ELSE <<>>)
  \o (IF audioUnit # NoHandle
      THEN << PlatformCall("AudioOutputUnitStop", "stop" \in tdFails),
              PlatformCall("AudioUnitUninitialize", "uninitialize" \in tdFails),
              PlatformCall("AudioComponentInstanceDispose", "dispose" \in tdFails) >>
      ELSE <<>>)

\* The platform calls of lines 248-258 in the order the code makes them,
\* those in tdFails returning a non-success status.  No status is read.
StopCalls(tdFails) ==
  (IF audioUnit # NoHandle
   THEN << PlatformCall("AudioOutputUnitStop", "stop" \in tdFails),
           PlatformCall("AudioUnitUninitialize", "uninitialize" \in tdFails),
           PlatformCall("AudioComponentInstanceDispose", "dispose" \in tdFails) >>
   ELSE <<>>)
  \o (IF tsfn # NoHandle THEN << PlatformCall("Release", FALSE) >> ELSE <<>>)

\* A teardown that throws at the first failing call and leaves the rest undone.
StopTeardownChecked(op, tdFails) ==
  IF audioUnit # NoHandle /\ tdFails # {}
  THEN /\ last' = Called(op, "Failed to stop audio unit", StopCalls(tdFails))
       /\ UNCHANGED <<isCapturing, unit, chan>>
  ELSE /\ unit' = IF audioUnit # NoHandle THEN Teardown(unit, audioUnit) ELSE unit
       /\ chan' = IF tsfn # NoHandle THEN TsfnRelease(chan, tsfn) ELSE chan
       /\ isCapturing' = FALSE
       /\ last' = Called(op, NoError, StopCalls(tdFails))

\* The teardown of lines 248-260, whatever isCapturing is.
StopTeardown(op, tdFails) ==
  /\ unit' = IF audioUnit # NoHandle THEN Teardown(unit, audioUnit) ELSE unit
  /\ chan' = IF tsfn # NoHandle THEN TsfnRelease(chan, tsfn) ELSE chan
  /\ isCapturing' = FALSE
  /\ last' = Called(op, NoError, StopCalls(tdFails))

\* StopCapture without the test of isCapturing.
StopBodyUnguarded(op, tdFails) == StopTeardown(op, tdFails)

\* Lines 243-261: return at once when not capturing, else tear down.
StopBody(op, tdFails) ==
  IF ~isCapturing
  THEN /\ last' = Returned(op, NoError)
       /\ UNCHANGED <<isCapturing, unit, chan>>
  ELSE StopTeardown(op, tdFails)

StopCapture(tdFails) ==
  /\ destroyed = "no"
  /\ ~Starting
  /\ StopBody("stopCapture", tdFails)
  /\ UNCHANGED <<audioUnit, outputDevice, tsfn, delivered, nRender, destroyed>>

\* ----------------------------------------------------------- ~AudioCapture
\* A destructor that releases the object without stopping the capture.
DestructorNoStop(tdFails) ==
  /\ destroyed = "no"
  /\ ~Starting
  /\ destroyed' = IF isCapturing THEN "capturing" ELSE "idle"
  /\ last' = Returned("destroy", NoError)
  /\ UNCHANGED <<isCapturing, unit, chan, audioUnit, outputDevice, tsfn,
                 delivered, nRender>>

\* Lines 264-270: StopCapture when capturing.
Destructor(tdFails) ==
  /\ destroyed = "no"
  /\ ~Starting
  /\ destroyed' = IF isCapturing THEN "capturing" ELSE "idle"
  /\ IF isCapturing
     THEN StopBody("destroy", tdFails)
     ELSE /\ last' = Returned("destroy", NoError)
          /\ UNCHANGED <<isCapturing, unit, chan>>
  /\ UNCHANGED <<audioUnit, outputDevice, tsfn, delivered, nRender>>

\* ------------------------------------------------------ the render callback
\* napi_call_threadsafe_function returns napi_queue_full, queueing nothing,
\* when the function has a queue limit and the queue has reached it.
QueueFull(h) == MaxQueueSize > 0 /\ Len(chan[h].queue) >= MaxQueueSize

\* tsfn.NonBlockingCall(callback).  A function some thread holds queues the
\* call.  A call on a released function is undefined: the runtime queues it
\* while the function is not yet destroyed (accepted) or rejects it.
NonBlockingCall(h, data, accepted) ==
  IF chan[h].state = "open" /\ (chan[h].threads > 0 \/ accepted) /\ ~QueueFull(h)
  THEN TsfnPush(chan, h, data)
  ELSE chan

\* A render callback that copies nothing out: it queues no buffer.
HandleAudioInputDrops(n, status, accepted) ==
  /\ destroyed = "no"
  /\ nRender < MaxRenders
  /\ \E u \in Handles : UnitFires(u) \/ UnitFiresLate(u)
  /\ last' = Returned("render", status)
  /\ UNCHANGED <<isCapturing, audioUnit, outputDevice, tsfn, chan, unit,
                 delivered, nRender, destroyed>>

\* A render callback that does not test the status of AudioUnitRender.
HandleAudioInputUntested(n, status, accepted) ==
  /\ destroyed = "no"
  /\ nRender < MaxRenders
  /\ \E u \in Handles : UnitFires(u) \/ UnitFiresLate(u)
  /\ chan' = IF tsfn # NoHandle
             THEN NonBlockingCall(tsfn, AudioData(nRender + 1, n), accepted)
             ELSE chan
  /\ nRender' = IF chan' # chan THEN nRender + 1 ELSE nRender
  /\ last' = Returned("render", status)
  /\ UNCHANGED <<isCapturing, audioUnit, outputDevice, tsfn, unit, delivered,
                 destroyed>>

\* Lines 39-83, invoked with n frames; status: what AudioUnitRender returns.
HandleAudioInput(n, status, accepted) ==
  /\ destroyed = "no"
  /\ nRender < MaxRenders
  /\ \E u \in Handles : UnitFires(u) \/ UnitFiresLate(u)
  /\ chan' = IF status = "noErr" /\ tsfn # NoHandle
             THEN NonBlockingCall(tsfn, AudioData(nRender + 1, n), accepted)
             ELSE chan
  /\ nRender' = IF chan' # chan THEN nRender + 1 ELSE nRender
  /\ last' = Returned("render", status)
  /\ UNCHANGED <<isCapturing, audioUnit, outputDevice, tsfn, unit, delivered,
                 destroyed>>

\* accepted is an outcome only of a call on a released function.
AcceptedRead(status) ==
  /\ status = "noErr"
  /\ tsfn # NoHandle
  /\ chan[tsfn].state = "open"
  /\ chan[tsfn].threads = 0

AudioInputCallback ==
  \E n \in 1..MaxFrames, status \in Status, accepted \in BOOLEAN :
    /\ accepted => AcceptedRead(status)
    /\ HandleAudioInput(n, status, accepted)

\* ------------------------------------------- the JavaScript thread's queue
\* The record of one consumer invocation: jsCallback.Call({arrayBuffer}).
Invocation(h, data) ==
  [tsfn |-> h, cb |-> chan[h].cb, id |-> data.id, frames |-> data.frames,
   byteLength |-> data.size]

\* A dispatch that takes the newest queued call instead of the oldest.
DeliverNewest(h) ==
  /\ ~Starting
  /\ chan[h].state = "open"
  /\ chan[h].queue # <<>>
  /\ delivered' = Append(delivered,
                         Invocation(h, chan[h].queue[Len(chan[h].queue)]))
  /\ chan' = [chan EXCEPT ![h].queue = SubSeq(@, 1, Len(@) - 1)]
  /\ last' = Returned("deliver", NoError)
  /\ UNCHANGED <<isCapturing, audioUnit, outputDevice, tsfn, unit, nRender,
                 destroyed>>

\* The runtime takes the oldest queued call of function h and runs the
\* lambda of lines 70-77 on the JavaScript thread.
Deliver(h) ==
  /\ ~Starting
  /\ chan[h].state = "open"
  /\ chan[h].queue # <<>>
  /\ delivered' = Append(delivered, Invocation(h, Head(chan[h].queue)))
  /\ chan' = [chan EXCEPT ![h].queue = Tail(@)]
  /\ last' = Returned("deliver", NoError)
  /\ UNCHANGED <<isCapturing, audioUnit, outputDevice, tsfn, unit, nRender,
                 destroyed>>

\* The runtime destroys a released function whose queue is empty and runs
\* its finalizer (lines 132-135, which does nothing).
Finalize(h) ==
  /\ ~Starting
  /\ chan[h].state = "open"
  /\ chan[h].threads = 0
  /\ chan[h].queue = <<>>
  /\ chan' = [chan EXCEPT ![h].state = "closed"]
  /\ last' = Returned("finalize", NoError)
  /\ UNCHANGED <<isCapturing, audioUnit, outputDevice, tsfn, unit, delivered,
                 nRender, destroyed>>

\* ------------------------------------------------------------------- Next
\* The platform outcomes one StartCapture reads: none when it returns before
\* line 144, no device and no setup status when the one before has failed.
\* The outcomes it does not read are fixed, so each step is drawn once.
PlatformRead(arg, devStatus, dev, newStatus, fails) ==
  /\ (isCapturing \/ arg \notin Callbacks) => devStatus = "err"
  /\ devStatus = "err" => dev = "devA" /\ newStatus = "err"
  /\ newStatus = "err" => fails = {}

\* The teardown statuses exist only when the teardown calls are made.
TeardownRead(tdFails) == ~isCapturing => tdFails = {}

Next ==
  \/ \E arg \in Args, devStatus \in Status, dev \in Devices,
        newStatus \in Status, fails \in FailChoices :
       /\ PlatformRead(arg, devStatus, dev, newStatus, fails)
       /\ StartCapture(arg, devStatus, dev, newStatus, fails)
  \/ StartReturns
  \/ AudioInputCallback
  \/ \E h \in Handles : Deliver(h)
  \/ \E tdFails \in TeardownFailChoices :
       /\ TeardownRead(tdFails)
       /\ StopCapture(tdFails)
  \/ \E tdFails \in TeardownFailChoices :
       /\ TeardownRead(tdFails)
       /\ Destructor(tdFails)
  \/ \E h \in Handles : Finalize(h)

Spec == Init /\ [][Next]_vars

\* The audio subsystem keeps invoking the callback of a started unit with
\* AudioUnitRender succeeding, and the JavaScript thread's event loop keeps
\* dispatching the calls queued for it.
RenderSucceeds == \E n \in 1..MaxFrames : HandleAudioInput(n, "noErr", FALSE)

Dispatch == \E h \in Handles : Deliver(h)

FairSpec == Spec /\ WF_vars(RenderSucceeds) /\ WF_vars(Dispatch)

\* ================================================================= claims
\* The consumer invocations made through function h, as buffer ids in order.
RECURSIVE IdsOf(_, _)
IdsOf(log, h) ==
  IF log = <<>> THEN <<>>
  ELSE IF Head(log).tsfn = h THEN <<Head(log).id>> \o IdsOf(Tail(log), h)
  ELSE IdsOf(Tail(log), h)

IsPrefix(s, t) == Len(s) <= Len(t) /\ SubSeq(t, 1, Len(s)) = s

\* C1: a startCapture call made while the session is capturing throws
\* "Already capturing" and changes neither the state, the audio unit, the
\* device, the handoff function, nor any unit or function of the platform
\* (so no new one is created and the queued deliveries and their callback
\* are as before).
C1_StartWhileCapturingRejected ==
  [][(isCapturing /\ last'.op = "startCapture")
       => /\ last'.ret = ErrAlreadyCapturing
          /\ UNCHANGED <<isCapturing, audioUnit, outputDevice, tsfn, chan,
                         unit>>]_vars

C1_Witness ==
  /\ isCapturing
  /\ last = Returned("startCapture", ErrAlreadyCapturing)
  /\ UnitLive(audioUnit)
  /\ ChanOpen(tsfn)

\* C2: after a startCapture in which the device query, the unit creation or
\* a later setup call failed, the session is idle, the handoff function the
\* call created is released and no audio unit is live.
StartFailed ==
  /\ last.op = "startCapture"
  /\ \/ last.ret \in {ErrDevice, ErrUnit}
     \/ /\ last.ret = NoError
        /\ unit[audioUnit].failed # {}

C2_FailedStartReleasesAll ==
  StartFailed =>
    /\ ~isCapturing
    /\ ~ChanOpen(tsfn)
    /\ \A u \in Handles : ~UnitLive(u)

\* C3: the session is capturing only if every one of the seven setup calls
\* on its unit returned success, and a startCapture in which one of them
\* failed throws an error.
C3_SetupStatusesChecked ==
  /\ isCapturing => unit[audioUnit].failed = {}
  /\ (last.op = "startCapture" /\ last.ret = NoError)
       => unit[audioUnit].failed = {}

\* C4: in every state between the session's calls, a live audio unit, a
\* registered render callback and an open handoff function each exist
\* exactly when the session is capturing.
C4_ResourcesIffCapturing ==
  ~Starting =>
    /\ (\E u \in Handles : UnitLive(u)) <=> isCapturing
    /\ (\E u \in Handles : UnitLive(u) /\ "setCallback" \notin unit[u].failed)
         <=> isCapturing
    /\ (\E h \in Handles : ChanOpen(h)) <=> isCapturing

\* C5: once stopCapture has returned, having released the session's handoff
\* function, the consumer callback is not invoked through that function
\* again.
C5_NoDeliveryAfterStop ==
  [][\A h \in Handles :
       (destroyed = "no" /\ chan[h].state # "unused" /\ chan[h].threads = 0)
         => IdsOf(delivered', h) = IdsOf(delivered, h)]_vars

\* C6: a render callback that runs while the session's handoff function is
\* empty or released queues nothing: it leaves every function as it was.
C6_NoEnqueueAfterClose ==
  [][(last'.op = "render" /\ (tsfn = NoHandle \/ ~ChanOpen(tsfn)))
       => chan' = chan]_vars

\* C7: for every session, the buffers delivered to the consumer are, in
\* order, the first of the buffers the render callback queued for it; no
\* buffer is delivered twice.
C7_DeliveryInEnqueueOrder ==
  /\ \A h \in Handles : IsPrefix(IdsOf(delivered, h), chan[h].enq)
  /\ \A i, j \in 1..Len(delivered) :
       i # j => delivered[i].id # delivered[j].id

C7_Witness ==
  \E h \in Handles : Len(IdsOf(delivered, h)) >= 2

\* C8: every buffer delivered to the consumer has byte length 8 times the
\* frame count of the render invocation that produced it.
C8_DeliveredLength ==
  \A i \in 1..Len(delivered) :
    /\ delivered[i].byteLength = delivered[i].frames * 8
    /\ delivered[i].byteLength % 8 = 0

C8_Witness ==
  \E i \in 1..Len(delivered) : delivered[i].frames = MaxFrames

C10_StopWhenIdleIsNoOp ==
  [][(~isCapturing /\ last'.op = "stopCapture")
       => /\ last'.ret = NoError
          /\ UNCHANGED <<isCapturing, audioUnit, outputDevice, tsfn, chan,
                         unit>>]_vars

C10_Witness ==
  /\ last.op = "stopCapture"
  /\ ~isCapturing
  /\ tsfn # NoHandle
  /\ ChanOpen(tsfn)

\* C11: every stopCapture call returns without throwing and leaves the
\* session idle, whatever statuses the teardown calls returned.
C11_StopNeverFails ==
  [][last'.op = "stopCapture"
       => /\ last'.ret = NoError
          /\ ~isCapturing']_vars

C11_Witness ==
  /\ last.op = "stopCapture"
  /\ last.ret = NoError
  /\ ~isCapturing
  /\ \E i \in 1..Len(last.calls) : last.calls[i].status = "err"

\* C12: a startCapture on an idle session whose argument is absent or not a
\* function throws "Callback function required" and acquires nothing: the
\* session stays idle, no thread-safe function is created, no device is
\* stored and no audio unit is created.
C12_NoCallbackAcquiresNothing ==
  [][\A arg \in Args \ Callbacks :
       (~isCapturing /\ last'.op = "startCapture"
        /\ StartCapture(arg, "err", "devA", "err", {}))
         => /\ last'.ret = ErrCallbackRequired
            /\ ~isCapturing'
            /\ UNCHANGED <<tsfn, chan, outputDevice, audioUnit, unit>>]_vars

C12_Witness ==
  /\ last.op = "startCapture"
  /\ last.ret = ErrCallbackRequired
  /\ ~isCapturing

\* C13: a startCapture(cb) on an idle session whose device query fails throws
\* "Failed to get default output device", leaves the session idle, creates
\* no audio unit, and cb is never invoked through the handoff function that
\* call created.
C13_NoDeviceNoInvocation ==
  /\ [][\A arg \in Callbacks :
          (~isCapturing /\ StartCapture(arg, "err", "devA", "err", {}))
            => /\ last'.ret = ErrDevice
               /\ ~isCapturing'
               /\ UNCHANGED <<audioUnit, unit>>]_vars
  /\ [](\A i \in 1..Len(delivered) :
          chan[delivered[i].tsfn].start # ErrDevice)

\* C14: the number of queued, not yet delivered buffers of a handoff function
\* is bounded in every state: some limit below the number of buffers the
\* render callback produces in a run holds for every queue, the buffers past
\* it being dropped.
C14_QueueBounded ==
  \E limit \in 1..(MaxRenders - 1) :
    \A h \in Handles : Len(chan[h].queue) <= limit

\* C15: once startCapture(cb) has succeeded and the unit's callback fires,
\* with successful renders continuing and the JavaScript thread dispatching
\* fairly, a buffer of frames * 8 bytes is eventually delivered to cb through
\* the session's handoff function, unless the session is stopped first.
C15_EventuallyDelivered ==
  (/\ isCapturing /\ destroyed = "no"
   /\ UnitFires(audioUnit) /\ nRender < MaxRenders)
    ~> (\/ ~isCapturing
        \/ \E i \in 1..Len(delivered) :
             /\ delivered[i].tsfn = tsfn
             /\ delivered[i].cb = chan[tsfn].cb
             /\ delivered[i].byteLength
                  = delivered[i].frames * NumChannels * SizeofFloat32)

C15_Witness ==
  /\ isCapturing
  /\ destroyed = "no"
  /\ UnitFires(audioUnit)
  /\ \E i \in 1..Len(delivered) :
       /\ delivered[i].tsfn = tsfn
       /\ delivered[i].cb \in Callbacks
       /\ delivered[i].byteLength = delivered[i].frames * 8

\* The position of the call named name in a call log, 0 when it is absent.
CallIndex(calls, name) ==
  IF \E i \in 1..Len(calls) : calls[i].call = name
  THEN CHOOSE i \in 1..Len(calls) : calls[i].call = name
  ELSE 0

\* C16: the setup and teardown of a session do not overlap its render
\* callback: the function is created and the callback registered before the
\* unit is started, the unit is disposed and the function released after the
\* unit is stopped, and no render callback runs while StartCapture is still
\* on its way to isCapturing = true.
C16_NoCallbackDuringSetup ==
  /\ [](last.ret = Pending =>
          /\ 0 < CallIndex(last.calls, "ThreadSafeFunction::New")
          /\ CallIndex(last.calls, "ThreadSafeFunction::New")
               < CallIndex(last.calls, "start")
          /\ 0 < CallIndex(last.calls, "setCallback")
          /\ CallIndex(last.calls, "setCallback")
               < CallIndex(last.calls, "start"))
  /\ [](last.op = "stopCapture" /\ last.calls # <<>> =>
          /\ CallIndex(last.calls, "AudioOutputUnitStop")
               < CallIndex(last.calls, "AudioComponentInstanceDispose")
          /\ CallIndex(last.calls, "AudioOutputUnitStop")
               < CallIndex(last.calls, "Release"))
  /\ [][last'.op = "render" => ~Starting]_vars

\* C17: every render callback returns to the audio subsystem the status
\* AudioUnitRender returned; it queues a buffer only when that status is
\* noErr, and when it is not, it changes nothing of the session, of the
\* handoff functions or of the units.
C17_RenderStatusReturned ==
  [][last'.op = "render" =>
       \A n \in 1..MaxFrames, status \in Status, accepted \in BOOLEAN :
         HandleAudioInput(n, status, accepted)
           => /\ last'.ret = status
              /\ chan' # chan => status = "noErr"
              /\ status # "noErr"
                   => UNCHANGED <<isCapturing, audioUnit, outputDevice, tsfn,
                                  chan, unit, delivered, nRender, destroyed>>]_vars

C17_Witness ==
  /\ last.op = "render"
  /\ last.ret = "err"
  /\ isCapturing
  /\ ChanOpen(tsfn)
  /\ chan[tsfn].queue = <<>>

\* C18: for every buffer the render callback queues, the byte size declared
\* to AudioUnitRender, the byte size of the scratch allocation and the byte
\* size copied for delivery are one number: frames * 2 channels * 4 bytes.
C18_ScratchSizesAgree ==
  \A h \in Handles : \A i \in 1..Len(chan[h].queue) :
    LET d == chan[h].queue[i]
    IN  /\ d.declared = d.frames * NumChannels * SizeofFloat32
        /\ d.allocated = d.declared
        /\ d.size = d.declared

\* The names of the calls of a call log, in order.
CallNames(calls) == [i \in 1..Len(calls) |-> calls[i].call]

\* C19: a stopCapture on a capturing session stops the unit, uninitializes
\* it, disposes it, releases the handoff function and then is idle, in this
\* order, also when the unit's initialize or start had failed; a stopCapture
\* that follows makes none of these calls.
C19_StopOrder ==
  /\ [][(isCapturing /\ last'.op = "stopCapture")
          => /\ CallNames(last'.calls)
                  = << "AudioOutputUnitStop", "AudioUnitUninitialize",
                       "AudioComponentInstanceDispose", "Release" >>
             /\ unit'[audioUnit].stops = unit[audioUnit].stops + 1
             /\ unit'[audioUnit].uninits = unit[audioUnit].uninits + 1
             /\ unit'[audioUnit].disposes = unit[audioUnit].disposes + 1
             /\ chan'[tsfn].releases = chan[tsfn].releases + 1
             /\ ~isCapturing']_vars
  /\ [][(~isCapturing /\ last'.op = "stopCapture")
          => /\ last'.calls = <<>>
             /\ UNCHANGED <<unit, chan>>]_vars

\* A stop of a unit that never ran with its callback (a setup call of it had
\* failed), followed by a second stop.
C19_Witness ==
  /\ last = Returned("stopCapture", NoError)
  /\ ~isCapturing
  /\ audioUnit # NoHandle
  /\ unit[audioUnit].state = "disposed"
  /\ ~unit[audioUnit].armed
  /\ unit[audioUnit].stops = 1
  /\ chan[tsfn].releases = 1

\* C20: over every sequence of startCapture, stopCapture and destruction, no
\* handoff function is released more than once, no audio unit is stopped or
\* disposed more than once, and at most one audio unit is live.
C20_ResourceBalance ==
  /\ \A h \in Handles : chan[h].releases <= 1
  /\ \A u \in Handles :
       /\ unit[u].stops <= 1
       /\ unit[u].uninits <= 1
       /\ unit[u].disposes <= 1
  /\ Cardinality({u \in Handles : UnitLive(u)}) <= 1

\* Every session of the run was stopped, the last one by the destructor.
C20_Witness ==
  /\ destroyed = "capturing"
  /\ \A u \in Handles : unit[u].stops = 1 /\ unit[u].disposes = 1
  /\ \A h \in Handles : chan[h].releases = 1

====
